---------------------------- MODULE Spec2Model ----------------------------
(***************************************************************************)
(* A model of the Arma 3 mod tools: arma3modtools.py (the launcher-list    *)
(* driven pipeline) and a3update.py (the fixed-list updater).              *)
(*                                                                         *)
(* Text is a sequence of one-character strings, so that splitting,         *)
(* prefix tests and slicing are computed character by character as the     *)
(* Python code computes them.                                              *)
(***************************************************************************)
EXTENDS Integers, Sequences, FiniteSets, TLC

VARIABLES
    \* the staleness check applied to one mod (needs_update, mod_needs_update)
    stDir, stNet, stPage, stCtime, stZone, stResA, stResB,
    \* a3update.update_mods: the position in the loop over MODS, the retry
    \* counter, the mirror directories, the changelog pages, and the external
    \* tool (the invocation at which it delivers each mod, invocations so far)
    a3pc, a3i, a3tries, a3dirs, a3pages, a3N, a3calls, a3loop, a3failed,
    \* dependency_sort applied to one registry
    sortPc, sortReg, sortOut,
    \* write_start_up_script applied to one startup script: the file, the
    \* file as it was before the last call, that call's argument, calls made
    scriptFile, scriptPrev, scriptArg, scriptCalls,
    \* create_mod_symlinks applied to one mods directory: which program's,
    \* the registry, the mirror directories, the mods directory, the links
    \* made so far at each path, calls made, whether a call raised
    linkProgram, linkReg, linkWorkshop, linkMods, linkMade, linkCalls, linkRaised,
    \* lowercasing applied to one mirror tree: which program's, the order in
    \* which a directory lists its entries, the tree, the tree at the start
    \* and before the last call, calls made, the last call's outcome
    lowProgram, lowOrder, lowTree, lowFirst, lowPrev, lowCalls, lowResult,
    \* run_html_mod_update: the position in the pipeline, the run, the
    \* registry, each mod's changelog page and mirror directory, the list
    \* mods_to_update, where run_update's caller goes on, the mods and keys
    \* directories, dependency_sort's result, the startup script now and
    \* before the first run, the state left by the run before, the calls of
    \* write_start_up_script so far, the exception that ended the run
    pipePc, pipeRun, pipeReg, pipeRemote, pipeDirs, pipeToUpdate, pipeReturn,
    pipeMods, pipeKeys, pipeSort, pipeScript, pipeScript0, pipeSnap,
    pipeWrites, pipeError

staleVars == <<stDir, stNet, stPage, stCtime, stZone, stResA, stResB>>

a3Vars == <<a3pc, a3i, a3tries, a3dirs, a3pages, a3N, a3calls, a3loop, a3failed>>

sortVars == <<sortPc, sortReg, sortOut>>

scriptVars == <<scriptFile, scriptPrev, scriptArg, scriptCalls>>

linkVars ==
    <<linkProgram, linkReg, linkWorkshop, linkMods, linkMade, linkCalls, linkRaised>>

lowVars == <<lowProgram, lowOrder, lowTree, lowFirst, lowPrev, lowCalls, lowResult>>

pipeVars ==
    <<pipePc, pipeRun, pipeReg, pipeRemote, pipeDirs, pipeToUpdate, pipeReturn,
      pipeMods, pipeKeys, pipeSort, pipeScript, pipeScript0, pipeSnap,
      pipeWrites, pipeError>>

vars == <<staleVars, a3Vars, sortVars, scriptVars, linkVars, lowVars, pipeVars>>

\* What the steps of one program leave alone: the other programs' state.
StaleFrame ==
    UNCHANGED <<a3Vars, sortVars, scriptVars, linkVars, lowVars, pipeVars>>

A3Frame ==
    UNCHANGED <<staleVars, sortVars, scriptVars, linkVars, lowVars, pipeVars>>

SortFrame ==
    UNCHANGED <<staleVars, a3Vars, scriptVars, linkVars, lowVars, pipeVars>>

ScriptFrame ==
    UNCHANGED <<staleVars, a3Vars, sortVars, linkVars, lowVars, pipeVars>>

LinkFrame ==
    UNCHANGED <<staleVars, a3Vars, sortVars, scriptVars, lowVars, pipeVars>>

LowFrame ==
    UNCHANGED <<staleVars, a3Vars, sortVars, scriptVars, linkVars, pipeVars>>

PipeFrame ==
    UNCHANGED <<staleVars, a3Vars, sortVars, scriptVars, linkVars, lowVars>>

(***************************************************************************)
(* Text helpers (Python str methods).                                      *)
(***************************************************************************)
UpperChars == <<"A","B","C","D","E","F","G","H","I","J","K","L","M",
                "N","O","P","Q","R","S","T","U","V","W","X","Y","Z">>
LowerChars == <<"a","b","c","d","e","f","g","h","i","j","k","l","m",
                "n","o","p","q","r","s","t","u","v","w","x","y","z">>
DigitChars == <<"0","1","2","3","4","5","6","7","8","9">>

\* str.lower() on one character
LowerChar(c) ==
    IF \E i \in 1..Len(UpperChars) : UpperChars[i] = c
    THEN LowerChars[CHOOSE i \in 1..Len(UpperChars) : UpperChars[i] = c]
    ELSE c

\* str.lower()
Lower(s) == [i \in 1..Len(s) |-> LowerChar(s[i])]

IsDigit(c) == \E i \in 1..Len(DigitChars) : DigitChars[i] = c

DigitVal(c) == (CHOOSE i \in 1..Len(DigitChars) : DigitChars[i] = c) - 1

\* str.startswith / str.endswith
StartsWith(s, p) == Len(s) >= Len(p) /\ SubSeq(s, 1, Len(p)) = p

EndsWith(s, p) == Len(s) >= Len(p) /\ SubSeq(s, Len(s) - Len(p) + 1, Len(s)) = p

\* str.split(sep) with an explicit one-character separator: empty tokens
\* are kept, and the empty text splits into one empty token.
RECURSIVE Split(_, _)
Split(s, sep) ==
    IF \A i \in 1..Len(s) : s[i] # sep
    THEN <<s>>
    ELSE LET i == CHOOSE k \in 1..Len(s) :
                      s[k] = sep /\ \A j \in 1..(k - 1) : s[j] # sep
         IN  <<SubSeq(s, 1, i - 1)>> \o Split(SubSeq(s, i + 1, Len(s)), sep)

(***************************************************************************)
(* Staleness check.                                                        *)
(*   arma3modtools.needs_update    (src/arma3modtools.py 170-196)          *)
(*   a3update.mod_needs_update     (src/a3update.py 59-71)                 *)
(*                                                                         *)
(* Time.  st_ctime is a float of seconds; datetime.fromtimestamp rounds it *)
(* to whole microseconds (half to even) and renders the result as naive    *)
(* local wall-clock time; the two naive datetimes are then compared.  The  *)
(* model counts st_ctime in ticks of 1/SubPerMicro microsecond, a second   *)
(* is MicroPerSec microseconds, and a zone gives the UTC offset (whole     *)
(* seconds) in force at each second.                                       *)
(***************************************************************************)
MaxSec == 2          \* the directory's st_ctime lies in seconds 0..MaxSec
MicroPerSec == 2     \* microseconds per second in the model
SubPerMicro == 4     \* st_ctime ticks per microsecond
MaxIdLen == 2        \* longest numeric id attribute drawn
ShiftAt == 1         \* the second at which the "fallback" zone sets clocks back

TicksPerSec == MicroPerSec * SubPerMicro

Zones == {"fixed", "fallback"}

\* UTC offset in seconds at second sec: the "fallback" zone is one second
\* ahead until ShiftAt, when the clocks are set back.
UtcOffset(zone, sec) ==
    IF zone = "fallback" /\ sec < ShiftAt THEN 1 ELSE 0

\* Rounding of a float timestamp to whole microseconds, half to even.
RoundMicro(ticks) ==
    LET q == ticks \div SubPerMicro
        r == ticks % SubPerMicro
    IN  IF 2 * r < SubPerMicro THEN q
        ELSE IF 2 * r > SubPerMicro THEN q + 1
        ELSE IF q % 2 = 0 THEN q ELSE q + 1

\* datetime.fromtimestamp(x) for a float x given in ticks: the naive local
\* datetime, as microseconds of wall-clock time.
FromTimestampFloat(zone, ticks) ==
    LET micro == RoundMicro(ticks)
    IN  micro + UtcOffset(zone, micro \div MicroPerSec) * MicroPerSec

\* datetime.fromtimestamp(n) for an int n of seconds.
FromTimestampInt(zone, secs) ==
    (secs + UtcOffset(zone, secs)) * MicroPerSec

\* int(s) for the text of an id attribute: "ValueError" when s is not a
\* non-empty run of decimal digits.
RECURSIVE DecimalValue(_)
DecimalValue(s) ==
    IF s = <<>> THEN 0
    ELSE 10 * DecimalValue(SubSeq(s, 1, Len(s) - 1)) + DigitVal(s[Len(s)])

IsDecimal(s) == s # <<>> /\ \A i \in 1..Len(s) : IsDigit(s[i])

\* The changelog page, as far as the two parsers look at it: whether the
\* announcement container is there, whether it holds a paragraph, whether the
\* paragraph carries an id attribute, and the attribute's text.
TimeDigits == {DigitChars[i + 1] : i \in 0..MaxSec}

RECURSIVE SeqsUpTo(_, _)
SeqsUpTo(S, n) ==
    IF n = 0 THEN {<<>>}
    ELSE LET shorter == SeqsUpTo(S, n - 1)
         IN  shorter \cup {Append(s, x) : s \in shorter, x \in S}

IdTexts == SeqsUpTo(TimeDigits, MaxIdLen) \cup {<<"x">>, <<"1", "x">>}

Pages ==
    {[div |-> FALSE, p |-> FALSE, hasId |-> FALSE, id |-> <<>>],
     [div |-> TRUE,  p |-> FALSE, hasId |-> FALSE, id |-> <<>>],
     [div |-> TRUE,  p |-> TRUE,  hasId |-> FALSE, id |-> <<>>]}
    \cup {[div |-> TRUE, p |-> TRUE, hasId |-> TRUE, id |-> t] : t \in IdTexts}

NetOutcomes == {"ok", "timeout", "urlerror"}

\* (a strict comparison in place of line 191's >=)
needs_update_compare_strict(updated, downloaded) == updated > downloaded

\* line 191: updated >= downloaded
needs_update_compare(updated, downloaded) == updated >= downloaded

\* needs_update(mod_key): "needs_update" is return True, "up_to_date" is
\* return False, anything else is the exception that leaves the function.
needs_update(isDir, net, page, ctime, zone) ==
    IF ~isDir THEN "needs_update"
    ELSE IF net # "ok" THEN "needs_update"            \* caught, printed, return True
    ELSE IF ~page.div THEN "AttributeError"           \* None.p
    ELSE IF ~page.p THEN "TypeError"                  \* None['id']
    ELSE IF ~page.hasId THEN "KeyError"               \* p['id']
    ELSE IF ~IsDecimal(page.id) THEN "ValueError"     \* int(...)
    ELSE IF needs_update_compare(FromTimestampInt(zone, DecimalValue(page.id)),
                                 FromTimestampFloat(zone, ctime))
         THEN "needs_update"
         ELSE "up_to_date"

\* PATTERN.search(response): the announcement marker followed by a paragraph
\* tag whose id is a run of digits.
PatternMatches(page) == page.div /\ page.p /\ page.hasId /\ IsDecimal(page.id)

\* mod_needs_update(item_id, path)
mod_needs_update(isDir, net, page, ctime, zone) ==
    IF ~isDir THEN "up_to_date"
    ELSE IF net = "timeout" THEN "TimeoutError"       \* urlopen raises, not caught
    ELSE IF net = "urlerror" THEN "URLError"
    ELSE IF PatternMatches(page)
         THEN IF FromTimestampInt(zone, DecimalValue(page.id))
                   >= FromTimestampFloat(zone, ctime)
              THEN "needs_update"
              ELSE "up_to_date"
         ELSE "up_to_date"

Verdicts == {"needs_update", "up_to_date"}

CtimeTicks == 0..((MaxSec + 1) * TicksPerSec - 1)

StaleIdle ==
    /\ stDir = FALSE /\ stNet = "ok" /\ stZone = "fixed" /\ stCtime = 0
    /\ stPage = [div |-> FALSE, p |-> FALSE, hasId |-> FALSE, id |-> <<>>]
    /\ stResA = "idle" /\ stResB = "idle"

StaleInit ==
    /\ stDir \in BOOLEAN
    /\ stNet \in NetOutcomes
    /\ stPage \in Pages
    /\ stCtime \in CtimeTicks
    /\ stZone \in Zones
    /\ stResA = "none"
    /\ stResB = "none"

CallNeedsUpdate ==
    /\ stResA = "none"
    /\ stResA' = needs_update(stDir, stNet, stPage, stCtime, stZone)
    /\ UNCHANGED <<stDir, stNet, stPage, stCtime, stZone, stResB>>
    /\ StaleFrame

CallModNeedsUpdate ==
    /\ stResB = "none"
    /\ stResB' = mod_needs_update(stDir, stNet, stPage, stCtime, stZone)
    /\ UNCHANGED <<stDir, stNet, stPage, stCtime, stZone, stResA>>
    /\ StaleFrame

StaleNext == CallNeedsUpdate \/ CallModNeedsUpdate

(***************************************************************************)
(* a3update.update_mods (src/a3update.py 74-110).                          *)
(***************************************************************************)
A3_RETRIES == 10     \* the literal 10 of lines 91 and 109
MaxN == 12           \* the tool delivers a mod at invocation 1..MaxN

\* MODS (lines 23-32), its first two entries.
MODS ==
    <<[key   |-> <<"@","c","b","a","_","a","3">>,
       value |-> <<"4","5","0","8","1","4","9","9","7">>],
      [key   |-> <<"@","a","c","e","3">>,
       value |-> <<"4","6","3","9","3","9","0","5","7">>]>>

A3Ids == {MODS[i].value : i \in 1..Len(MODS)}

\* What the changelog of a mod of MODS may be: no announcement block, an
\* announcement older than every mirror directory, one newer than every one.
A3Pages ==
    {[div |-> FALSE, p |-> FALSE, hasId |-> FALSE, id |-> <<>>],
     [div |-> TRUE, p |-> TRUE, hasId |-> TRUE, id |-> <<"0">>],
     [div |-> TRUE, p |-> TRUE, hasId |-> TRUE, id |-> <<"2">>]}

\* st_ctime of a mirror directory found at start: second 1.
A3Ctime == TicksPerSec

A3Idle ==
    /\ a3pc = "idle" /\ a3i = 0 /\ a3tries = 0 /\ a3dirs = {}
    /\ a3pages = <<>> /\ a3N = <<>> /\ a3calls = <<>>
    /\ a3loop = {} /\ a3failed = {}

A3Init ==
    /\ a3pc = "check"
    /\ a3i = 1
    /\ a3tries = 0
    /\ a3dirs \in SUBSET A3Ids
    /\ a3pages \in [A3Ids -> A3Pages]
    /\ a3N \in [A3Ids -> 1..MaxN]
    /\ a3calls = [id \in A3Ids |-> 0]
    /\ a3loop = {}
    /\ a3failed = {}

\* The for loop moves to the next item of MODS, or ends.
A3NextMod(i) == IF i < Len(MODS) THEN "check" ELSE "done"

\* (the failure test with > in place of line 109's >=)
A3GaveUp_strict(tries) == tries > A3_RETRIES

\* line 109: if tries >= 10
A3GaveUp(tries) == tries >= A3_RETRIES

\* line 91: while os.path.isdir(path) == False and tries < 10
A3KeepTrying(isDir, tries) == ~isDir /\ tries < A3_RETRIES

\* Lines 76-90: the staleness check of one mod.  An up-to-date mod is
\* skipped, a stale one has its directory removed, and an absent or stale
\* one enters the retry loop with tries = 0.
A3Check ==
    /\ a3pc = "check"
    /\ LET id == MODS[a3i].value IN
       IF id \in a3dirs
       THEN \E net \in NetOutcomes :
              LET r == mod_needs_update(TRUE, net, a3pages[id], A3Ctime, "fixed") IN
              IF r = "needs_update"
              THEN /\ a3dirs' = a3dirs \ {id}                \* shutil.rmtree
                   /\ a3pc' = "loop"
                   /\ a3loop' = a3loop \cup {id}
                   /\ a3i' = a3i
              ELSE IF r = "up_to_date"
              THEN /\ a3pc' = A3NextMod(a3i)                  \* continue
                   /\ a3i' = IF a3i < Len(MODS) THEN a3i + 1 ELSE a3i
                   /\ UNCHANGED <<a3dirs, a3loop>>
              ELSE /\ a3pc' = "crashed"                       \* urlopen raised
                   /\ UNCHANGED <<a3dirs, a3loop, a3i>>
       ELSE /\ a3pc' = "loop"
            /\ a3loop' = a3loop \cup {id}
            /\ UNCHANGED <<a3dirs, a3i>>
    /\ a3tries' = 0
    /\ UNCHANGED <<a3pages, a3N, a3calls, a3failed>>
    /\ A3Frame

\* Lines 91-107: one pass of the retry loop: the tool is invoked, and it
\* delivers the mod's directory at its a3N-th invocation for that mod.
A3Download ==
    /\ a3pc = "loop"
    /\ LET id == MODS[a3i].value IN
       /\ A3KeepTrying(id \in a3dirs, a3tries)
       /\ a3calls' = [a3calls EXCEPT ![id] = @ + 1]
       /\ a3dirs' = IF a3calls[id] + 1 = a3N[id] THEN a3dirs \cup {id} ELSE a3dirs
    /\ a3tries' = a3tries + 1
    /\ UNCHANGED <<a3pc, a3i, a3pages, a3N, a3loop, a3failed>>
    /\ A3Frame

\* Lines 91, 109-110: the loop ends, and a failure is logged for the mod when
\* the retry counter has reached the cap.
A3EndLoop ==
    /\ a3pc = "loop"
    /\ LET id == MODS[a3i].value IN
       /\ ~A3KeepTrying(id \in a3dirs, a3tries)
       /\ a3failed' = IF A3GaveUp(a3tries)
                      THEN a3failed \cup {MODS[a3i].key} ELSE a3failed
    /\ a3pc' = A3NextMod(a3i)
    /\ a3i' = IF a3i < Len(MODS) THEN a3i + 1 ELSE a3i
    /\ UNCHANGED <<a3tries, a3dirs, a3pages, a3N, a3calls, a3loop>>
    /\ A3Frame

A3Next == A3Check \/ A3Download \/ A3EndLoop

(***************************************************************************)
(* The registry (mod_data_getter, src/arma3modtools.py 100-143) and        *)
(* dependency_sort (369-393).                                              *)
(***************************************************************************)
MaxMods == 2         \* entries of a registry
MaxDeps == 2         \* declared dependencies of one registry

Range(f) == {f[i] : i \in DOMAIN f}

IsAlnum(c) ==
    \/ IsDigit(c)
    \/ \E i \in 1..Len(UpperChars) : UpperChars[i] = c \/ LowerChars[i] = c

\* re.sub('[^0-9a-zA-Z]+', '', name)
RECURSIVE StripNonAlnum(_)
StripNonAlnum(s) ==
    IF s = <<>> THEN <<>>
    ELSE IF IsAlnum(s[1]) THEN <<s[1]>> \o StripNonAlnum(Tail(s))
    ELSE StripNonAlnum(Tail(s))

\* lines 127, 135: '@' + re.sub('[^0-9a-zA-Z]+', '', name).lower()
ParamName(name) == <<"@">> \o Lower(StripNonAlnum(name))

\* Workshop titles of the mods of the model.
DisplayNames == {<<"A">>, <<"a", "!">>, <<"B">>, <<"C">>}

\* lines 125-131: the dictionary of one declared dependency
Dependency(name) == [name |-> name, param_name |-> ParamName(name)]

\* lines 133-139: mod_details
ModDetails(key, name, deps) ==
    [key |-> key, name |-> name, param_name |-> ParamName(name),
     dependencies |-> [i \in 1..Len(deps) |-> Dependency(deps[i])]]

\* The identifier of the i-th mod of a launcher list.
KeyOf(i) == <<DigitChars[i + 1]>>

\* The dependency declarations of a registry of n mods, as a list of links
\* (the declaring mod, the title of the mod it requires).
DependencyLinks(n) ==
    SeqsUpTo([mod : 1..n, name : DisplayNames], MaxDeps)

\* The titles the i-th mod declares, in the order of its page.
DeclaredBy(links, i) ==
    LET mine == SelectSeq(links, LAMBDA l : l.mod = i)
    IN  [j \in 1..Len(mine) |-> mine[j].name]

\* A registry: a mod dictionary in insertion order, one entry per key.
Registry(names, links) ==
    [i \in 1..Len(names) |-> ModDetails(KeyOf(i), names[i], DeclaredBy(links, i))]

\* networkx.DiGraph: the nodes in insertion order, and each node's
\* successors in the order their edges were added.
EmptyGraph == [nodes |-> <<>>, succ |-> <<>>]

\* graph.add_node(n): a node already there is left alone
AddNode(g, n) ==
    IF n \in Range(g.nodes) THEN g
    ELSE [nodes |-> Append(g.nodes, n), succ |-> g.succ @@ (n :> <<>>)]

\* graph.add_edge(u, v): missing end points are added, u first
AddEdge(g, u, v) ==
    LET g2 == AddNode(AddNode(g, u), v)
    IN  IF v \in Range(g2.succ[u]) THEN g2
        ELSE [g2 EXCEPT !.succ[u] = Append(@, v)]

\* (the edge of line 385 turned round)
DependencyEdge_reversed(dependent, value) ==
    [from |-> value.param_name, to |-> dependent.param_name]

\* line 385: graph.add_edge(dependent['param_name'], value['param_name'])
DependencyEdge(dependent, value) ==
    [from |-> dependent.param_name, to |-> value.param_name]

\* lines 382-385: the inner loop over one entry's dependencies
RECURSIVE AddDependencies(_, _, _)
AddDependencies(g, value, deps) ==
    IF deps = <<>> THEN g
    ELSE LET g2 == AddNode(g, deps[1].param_name)
             e  == DependencyEdge(deps[1], value)
         IN  AddDependencies(AddEdge(g2, e.from, e.to), value, Tail(deps))

\* lines 378-385: the graph of a registry
RECURSIVE BuildGraph(_, _)
BuildGraph(g, entries) ==
    IF entries = <<>> THEN g
    ELSE LET value == entries[1]
             g2    == AddNode(g, value.param_name)
         IN  BuildGraph(AddDependencies(g2, value, value.dependencies),
                        Tail(entries))

\* G.in_degree()
InDegree(g, v) == Cardinality({u \in Range(g.nodes) : v \in Range(g.succ[u])})

\* networkx.topological_generations, the loop over one node's children:
\* st is [indeg, zero], the indegree map (0: not in the map) and the next
\* generation being collected.
RECURSIVE RelaxChildren(_, _)
RelaxChildren(children, st) ==
    IF children = <<>> THEN st
    ELSE LET child == children[1]
             d     == st.indeg[child] - 1
             st2   == [indeg |-> [st.indeg EXCEPT ![child] = d],
                       zero  |-> IF d = 0 THEN Append(st.zero, child) ELSE st.zero]
         IN  RelaxChildren(Tail(children), st2)

\* the loop over one generation
RECURSIVE RelaxGeneration(_, _, _)
RelaxGeneration(g, generation, st) ==
    IF generation = <<>> THEN st
    ELSE RelaxGeneration(g, Tail(generation),
                         RelaxChildren(g.succ[generation[1]], st))

\* the while loop: generations are yielded until none is left; nodes still in
\* the indegree map then are on a cycle, and NetworkXUnfeasible is raised.
RECURSIVE TopologicalLoop(_, _, _, _)
TopologicalLoop(g, zero, indeg, order) ==
    IF zero = <<>>
    THEN IF \E v \in Range(g.nodes) : indeg[v] > 0
         THEN [raised |-> TRUE, order |-> <<>>]
         ELSE [raised |-> FALSE, order |-> order]
    ELSE LET st == RelaxGeneration(g, zero, [indeg |-> indeg, zero |-> <<>>])
         IN  TopologicalLoop(g, st.zero, st.indeg, order \o zero)

\* (a sort that on a cycle returns the nodes it reached instead of raising)
topological_sort_truncating(g) ==
    LET indeg == [v \in Range(g.nodes) |-> InDegree(g, v)]
        zero  == SelectSeq(g.nodes, LAMBDA v : indeg[v] = 0)
        r     == TopologicalLoop(g, zero, indeg, <<>>)
    IN  IF r.raised THEN [raised |-> FALSE, order |-> zero] ELSE r

\* line 386: list(nx.topological_sort(graph))
topological_sort(g) ==
    LET indeg == [v \in Range(g.nodes) |-> InDegree(g, v)]
        zero  == SelectSeq(g.nodes, LAMBDA v : indeg[v] = 0)
    IN  TopologicalLoop(g, zero, indeg, <<>>)

\* line 387: MODS_DIR.relative_to(SERVER_DIR)
RelativeModPath == <<"m", "o", "d", "s">>

\* line 392: str(relative_mod_path / mod)
ModPath(mod) == RelativeModPath \o <<"/">> \o mod

\* lines 389-392: the rendering loop
RECURSIVE RenderLoadOrder(_, _, _)
RenderLoadOrder(list, i, load_order) ==
    IF i > Len(list) THEN load_order
    ELSE LET sep == IF list[i] # list[1] THEN <<";">> ELSE <<>>
         IN  RenderLoadOrder(list, i + 1, load_order \o sep \o ModPath(list[i]))

\* dependency_sort(mod_dict): the load order, or the exception of line 386
dependency_sort(mod_dict) ==
    LET sorted == topological_sort(BuildGraph(EmptyGraph, mod_dict))
    IN  IF sorted.raised
        THEN [raised |-> TRUE, value |-> <<>>]
        ELSE [raised |-> FALSE, value |-> RenderLoadOrder(sorted.order, 1, <<>>)]

NoLoadOrder == [raised |-> FALSE, value |-> <<>>]

SortIdle == sortPc = "idle" /\ sortReg = <<>> /\ sortOut = NoLoadOrder

SortInit ==
    /\ sortPc = "call"
    /\ \E n \in 0..MaxMods :
         \E names \in [1..n -> DisplayNames], links \in DependencyLinks(n) :
            sortReg = Registry(names, links)
    /\ sortOut = NoLoadOrder

CallDependencySort ==
    /\ sortPc = "call"
    /\ sortPc' = "returned"
    /\ sortOut' = dependency_sort(sortReg)
    /\ UNCHANGED sortReg
    /\ SortFrame

SortNext == CallDependencySort

(***************************************************************************)
(* write_start_up_script (src/arma3modtools.py 396-427).                   *)
(***************************************************************************)
MaxTokens == 3       \* space-separated tokens of a startup script drawn
MaxWrites == 2       \* calls of write_start_up_script in a row

ModPrefix == <<"-", "m", "o", "d", "=">>

\* line 403: '-mod="' + load_order + '"'
ModParameter(load_order) == ModPrefix \o <<"\"">> \o load_order \o <<"\"">>

\* lines 424-425: the text of a new script up to the parameter
NewScriptHead ==
    <<"#", "!", "/", "b", "i", "n", "/", "s", "h", "\n", "\n",
      "e", "c", "h", "o", " ", "\"", "S", "t", "a", "r", "t", "i", "n", "g", " ",
      "s", "e", "r", "v", "e", "r", " ", "P", "R", "E", "S", "S", " ",
      "C", "T", "R", "L", "+", "C", " ", "t", "o", " ", "e", "x", "i", "t", "\"", "\n",
      ".", "/", "a", "r", "m", "a", "3", "s", "e", "r", "v", "e", "r", " ">>

NoFile == [exists |-> FALSE, text |-> <<>>, mode |-> "none"]

\* (the replacement loop stopping at its first match)
RECURSIVE ReplaceFirstModToken(_, _, _)
ReplaceFirstModToken(params, i, load_order) ==
    IF i > Len(params) THEN params
    ELSE IF StartsWith(params[i], ModPrefix)
         THEN [params EXCEPT ![i] = load_order]
         ELSE ReplaceFirstModToken(params, i + 1, load_order)

ReplaceModTokens_first(params, load_order) ==
    ReplaceFirstModToken(params, 1, load_order)

\* lines 408-410: every token that starts with -mod= is replaced
ReplaceModTokens(params, load_order) ==
    [i \in 1..Len(params) |->
        IF StartsWith(params[i], ModPrefix) THEN load_order ELSE params[i]]

\* lines 412-414: the last token loses its last two characters when it ends
\* with a newline, and the parameter is appended
AppendModToken(params, load_order) ==
    LET last == params[Len(params)]
        cut  == IF EndsWith(last, <<"\n">>)
                THEN [params EXCEPT ![Len(params)] = SubSeq(last, 1, Len(last) - 2)]
                ELSE params
    IN  Append(cut, load_order)

\* lines 416-420: a token equal to the first token is written without a
\* space before it, every other token with one
RECURSIVE WriteParams(_, _)
WriteParams(params, i) ==
    IF i > Len(params) THEN <<>>
    ELSE (IF params[i] = params[1] THEN params[i] ELSE <<" ">> \o params[i])
         \o WriteParams(params, i + 1)

\* write_start_up_script(load_order): the startup script afterwards
write_start_up_script(file, order) ==
    LET load_order == ModParameter(order) IN
    IF file.exists
    THEN LET startup_parameters == Split(file.text, " ")
             updated ==
                 IF \E i \in 1..Len(startup_parameters) :
                        StartsWith(startup_parameters[i], ModPrefix)
                 THEN ReplaceModTokens(startup_parameters, load_order)
                 ELSE AppendModToken(startup_parameters, load_order)
         IN  [file EXCEPT !.text = WriteParams(updated, 1)]
    ELSE [exists |-> TRUE,
          text   |-> NewScriptHead \o load_order \o <<"\n">>,
          mode   |-> "0o744"]

\* Tokens of the startup scripts drawn: plain words, an empty token (two
\* spaces in a row), words that end a line, and load-order parameters.
ScriptTokens ==
    {<<"s">>, <<"p">>, <<>>, <<"p", "\n">>,
     ModPrefix \o <<"o">>, ModPrefix \o <<"o", "\n">>, <<"-", "m", "o", "d">>}

\* ' '.join(tokens)
RECURSIVE JoinTokens(_)
JoinTokens(tokens) ==
    IF Len(tokens) = 1 THEN tokens[1]
    ELSE tokens[1] \o <<" ">> \o JoinTokens(Tail(tokens))

\* Load orders passed in: those of one mod and of a mod and its dependency.
LoadOrders ==
    {ModPath(<<"@", "a">>),
     ModPath(<<"@", "b">>) \o <<";">> \o ModPath(<<"@", "a">>)}

ScriptIdle ==
    /\ scriptFile = NoFile /\ scriptPrev = NoFile
    /\ scriptArg = <<>> /\ scriptCalls = 0

ScriptInit ==
    /\ \/ scriptFile = NoFile
       \/ \E n \in 1..MaxTokens : \E tokens \in [1..n -> ScriptTokens] :
             scriptFile = [exists |-> TRUE, text |-> JoinTokens(tokens),
                           mode |-> "0o644"]
    /\ scriptPrev = NoFile
    /\ scriptArg = <<>>
    /\ scriptCalls = 0

CallWriteStartUpScript ==
    /\ scriptCalls < MaxWrites
    /\ \E order \in LoadOrders :
         /\ scriptArg' = order
         /\ scriptFile' = write_start_up_script(scriptFile, order)
    /\ scriptPrev' = scriptFile
    /\ scriptCalls' = scriptCalls + 1
    /\ ScriptFrame

ScriptNext == CallWriteStartUpScript

(***************************************************************************)
(* create_mod_symlinks: src/arma3modtools.py 306-327, src/a3update.py      *)
(* 117-127.  The mods directory maps each name to what is there: nothing,  *)
(* a directory, a file, or a link to the mirror directory of an            *)
(* identifier.  A link resolves when that mirror directory exists.         *)
(***************************************************************************)
MaxLinkCalls == 2    \* calls of create_mod_symlinks in a row

Nothing == [kind |-> "none", target |-> <<>>]

RealDir == [kind |-> "dir", target |-> <<>>]

RealFile == [kind |-> "file", target |-> <<>>]

LinkTo(id) == [kind |-> "link", target |-> id]

\* Path.is_dir(), os.path.isdir(): links are followed
IsDir(entry, workshop) ==
    \/ entry.kind = "dir"
    \/ entry.kind = "link" /\ entry.target \in workshop

\* os.path.islink()
IsLink(entry) == entry.kind = "link"

\* lines 314-317: everything in MODS_DIR that is no directory is unlinked
PruneMods(mods, workshop) ==
    [n \in DOMAIN mods |-> IF IsDir(mods[n], workshop) THEN mods[n] ELSE Nothing]

\* (the link made towards the mod's stable name instead of its identifier)
LinkTarget_byName(key, value) == value.param_name

\* line 320: real_path = Path(WORKSHOP_DIR / key)
LinkTarget(key, value) == key

\* lines 318-326: the loop over the registry; st is the mods directory and
\* the paths at which a link was made
RECURSIVE LinkEntries(_, _, _)
LinkEntries(entries, workshop, st) ==
    IF entries = <<>> THEN st
    ELSE LET value     == entries[1]
             link_path == value.param_name
             real_path == LinkTarget(value.key, value)
             st2 == IF ~IsDir(st.mods[link_path], workshop) /\ real_path \in workshop
                    THEN [mods |-> [st.mods EXCEPT ![link_path] = LinkTo(real_path)],
                          made |-> Append(st.made, link_path)]
                    ELSE st
         IN  LinkEntries(Tail(entries), workshop, st2)

\* arma3modtools.create_mod_symlinks(mod_dict)
create_mod_symlinks(mod_dict, mods, workshop) ==
    LET st == LinkEntries(mod_dict, workshop,
                          [mods |-> PruneMods(mods, workshop), made |-> <<>>])
    IN  [mods |-> st.mods, made |-> st.made, raised |-> FALSE]

\* a3update.create_mod_symlinks(), lines 118-127: the loop over MODS;
\* os.symlink raises FileExistsError when something that is no link is at
\* the link's path
RECURSIVE A3LinkEntries(_, _, _)
A3LinkEntries(items, workshop, st) ==
    IF items = <<>> \/ st.raised THEN st
    ELSE LET link_path == items[1].key
             real_path == items[1].value
             st2 == IF real_path \in workshop /\ ~IsLink(st.mods[link_path])
                    THEN IF st.mods[link_path].kind = "none"
                         THEN [st EXCEPT !.mods[link_path] = LinkTo(real_path),
                                         !.made = Append(@, link_path)]
                         ELSE [st EXCEPT !.raised = TRUE]
                    ELSE st
         IN  A3LinkEntries(Tail(items), workshop, st2)

a3_create_mod_symlinks(mods, workshop) ==
    A3LinkEntries(MODS, workshop, [mods |-> mods, made |-> <<>>, raised |-> FALSE])

\* MODS read as a registry: the stable name is the key, the identifier the value.
A3Registry ==
    [i \in 1..Len(MODS) |->
        [key |-> MODS[i].value, name |-> MODS[i].key,
         param_name |-> MODS[i].key, dependencies |-> <<>>]]

\* Titles of the registries drawn: two of them share a stable name.
LinkTitles == {<<"A">>, <<"a", "!">>, <<"B">>}

\* An identifier of the workshop that no registry holds.
ForeignId == <<"9">>

\* What may be at a path of the mods directory before the first call.
ModsEntries(ids) == {Nothing, RealDir, RealFile} \cup {LinkTo(id) : id \in ids}

LinkIdle ==
    /\ linkProgram = "idle" /\ linkReg = <<>> /\ linkWorkshop = {}
    /\ linkMods = <<>> /\ linkMade = <<>> /\ linkCalls = 0 /\ linkRaised = FALSE

LinkInit ==
    /\ \/ /\ linkProgram = "arma3modtools"
          /\ \E n \in 1..MaxMods : \E names \in [1..n -> LinkTitles] :
                linkReg = Registry(names, <<>>)
       \/ /\ linkProgram = "a3update"
          /\ linkReg = A3Registry
    /\ LET names == IF linkProgram = "a3update"
                    THEN {MODS[i].key : i \in 1..Len(MODS)}
                    ELSE {ParamName(t) : t \in LinkTitles}
           ids   == IF linkProgram = "a3update"
                    THEN A3Ids \cup {ForeignId}
                    ELSE {KeyOf(i) : i \in 1..MaxMods} \cup {ForeignId}
       IN  /\ linkWorkshop \in SUBSET ids
           /\ linkMods \in [names -> ModsEntries(ids)]
           /\ linkMade = [n \in names |-> 0]
    /\ linkCalls = 0
    /\ linkRaised = FALSE

\* The number of links made at each path, after the calls so far.
CountMade(made, counts) ==
    [n \in DOMAIN counts |->
        counts[n] + Cardinality({i \in 1..Len(made) : made[i] = n})]

CallCreateModSymlinks ==
    /\ linkProgram = "arma3modtools"
    /\ linkCalls < MaxLinkCalls
    /\ LET r == create_mod_symlinks(linkReg, linkMods, linkWorkshop) IN
         /\ linkMods' = r.mods
         /\ linkMade' = CountMade(r.made, linkMade)
         /\ linkRaised' = r.raised
    /\ linkCalls' = linkCalls + 1
    /\ UNCHANGED <<linkProgram, linkReg, linkWorkshop>>
    /\ LinkFrame

CallA3CreateModSymlinks ==
    /\ linkProgram = "a3update"
    /\ linkCalls < MaxLinkCalls
    /\ ~linkRaised
    /\ LET r == a3_create_mod_symlinks(linkMods, linkWorkshop) IN
         /\ linkMods' = r.mods
         /\ linkMade' = CountMade(r.made, linkMade)
         /\ linkRaised' = r.raised
    /\ linkCalls' = linkCalls + 1
    /\ UNCHANGED <<linkProgram, linkReg, linkWorkshop>>
    /\ LinkFrame

LinkNext == CallCreateModSymlinks \/ CallA3CreateModSymlinks

(***************************************************************************)
(* Lowercasing: arma3modtools.lowercase_mods (src/arma3modtools.py         *)
(* 351-366) and a3update.lowercase_workshop_dir (src/a3update.py 113-114). *)
(*                                                                         *)
(* The mirror tree maps each path under WORKSHOP_DIR (a sequence of names) *)
(* to its kind and to the entry it is (the path it had at the start), so   *)
(* that an entry that is overwritten is seen to be lost.                   *)
(***************************************************************************)
MaxLeaves == 2       \* paths from which a mirror tree is drawn
MaxLowerCalls == 2   \* lowercasing passes in a row

\* Names of the entries drawn, in the order "ascending" lists them.
TreeNames == <<<<"1">>, <<"F">>, <<"f">>>>

Parent(path) == SubSeq(path, 1, Len(path) - 1)

LastName(path) == path[Len(path)]

IsUnder(path, dir) == Len(path) > Len(dir) /\ SubSeq(path, 1, Len(dir)) = dir

NameRank(name) == CHOOSE i \in 1..Len(TreeNames) : TreeNames[i] = name

\* os.scandir / os.listdir of a directory: its entries, in the order the
\* file system gives them
RECURSIVE SortedBy(_, _)
SortedBy(paths, order) ==
    IF paths = {} THEN <<>>
    ELSE LET first == CHOOSE p \in paths : \A q \in paths :
                          IF order = "ascending"
                          THEN NameRank(LastName(p)) <= NameRank(LastName(q))
                          ELSE NameRank(LastName(p)) >= NameRank(LastName(q))
         IN  <<first>> \o SortedBy(paths \ {first}, order)

ListDir(tree, dir, order) ==
    SortedBy({p \in DOMAIN tree : Parent(p) = dir}, order)

\* The entries of tree with those at and under src moved to dst.
MoveTree(tree, src, dst) ==
    LET moved == {p \in DOMAIN tree : p = src \/ IsUnder(p, src)}
        gone  == {p \in DOMAIN tree : p = dst \/ IsUnder(p, dst)}
        kept  == (DOMAIN tree \ moved) \ gone
        To(p) == dst \o SubSeq(p, Len(src) + 1, Len(p))
    IN  [q \in kept \cup {To(p) : p \in moved} |->
            IF q \in kept THEN tree[q]
            ELSE tree[CHOOSE p \in moved : To(p) = q]]

\* Path.replace (os.replace): st is [tree, raised]
Replace(st, src, dst) ==
    LET tree == st.tree IN
    IF st.raised # "no" THEN st
    ELSE IF src \notin DOMAIN tree THEN [st EXCEPT !.raised = "FileNotFoundError"]
    ELSE IF src = dst THEN st
    ELSE IF dst \notin DOMAIN tree THEN [st EXCEPT !.tree = MoveTree(tree, src, dst)]
    ELSE IF tree[src].kind = "file" /\ tree[dst].kind = "dir"
         THEN [st EXCEPT !.raised = "IsADirectoryError"]
    ELSE IF tree[src].kind = "dir" /\ tree[dst].kind = "file"
         THEN [st EXCEPT !.raised = "NotADirectoryError"]
    ELSE IF tree[dst].kind = "dir" /\ \E p \in DOMAIN tree : IsUnder(p, dst)
         THEN [st EXCEPT !.raised = "OSError"]          \* directory not empty
    ELSE [st EXCEPT !.tree = MoveTree(tree, src, dst)]

\* (the item's own name kept, as if line 360 did not lower it)
LoweredItem_unchanged(item) == LastName(item)

\* line 360: lowered_item = item.name.lower()
LoweredItem(item) == Lower(LastName(item))

\* lines 360-362 for each item of one listing
RECURSIVE ReplaceItems(_, _)
ReplaceItems(st, items) ==
    IF items = <<>> THEN st
    ELSE ReplaceItems(Replace(st, items[1], Append(Parent(items[1]), LoweredItem(items[1]))),
                      Tail(items))

\* directory.rglob('*') with the loop body of lines 360-362 run on each
\* item as it is yielded (pathlib of Python 3.11): the entries of dir are
\* listed and yielded; dir is then listed again, and each directory then in
\* it is gone into in turn.
RECURSIVE LowerUnder(_, _, _, _)
RECURSIVE LowerEach(_, _, _, _)
LowerEach(st, dirs, order, depth) ==
    IF dirs = <<>> THEN st
    ELSE LowerEach(LowerUnder(st, dirs[1], order, depth), Tail(dirs), order, depth)

LowerUnder(st, dir, order, depth) ==
    IF st.raised # "no" \/ depth = 0 THEN st
    ELSE LET st2  == ReplaceItems(st, ListDir(st.tree, dir, order))
             subs == SelectSeq(ListDir(st2.tree, dir, order),
                               LAMBDA p : st2.tree[p].kind = "dir")
         IN  IF st2.raised # "no" THEN st2
             ELSE LowerEach(st2, subs, order, depth - 1)

\* The longest path of a tree (the recursion above goes no deeper).
TreeHeight(tree) ==
    IF DOMAIN tree = {} THEN 0
    ELSE CHOOSE n \in 1..Cardinality(DOMAIN tree) :
            /\ \E p \in DOMAIN tree : Len(p) = n
            /\ \A p \in DOMAIN tree : Len(p) <= n

\* lowercase_mods(): lines 358-363 when WORKSHOP_DIR is a directory; files
\* directly under WORKSHOP_DIR yield nothing
lowercase_mods(tree, order) ==
    LET roots == SelectSeq(ListDir(tree, <<>>, order), LAMBDA p : tree[p].kind = "dir")
    IN  LowerEach([tree |-> tree, raised |-> "no"], roots, order, TreeHeight(tree))

\* rename with s/(.*)\/([^\/]*)/$1\/\L$2/ on one path: the last name is
\* lowered; a name already taken is left alone
A3Rename(tree, path) ==
    LET dst == Append(Parent(path), Lower(LastName(path)))
    IN  IF dst = path \/ dst \in DOMAIN tree THEN tree
        ELSE MoveTree(tree, path, dst)

RECURSIVE A3RenameAll(_, _)
A3RenameAll(tree, paths) ==
    IF paths = <<>> THEN tree
    ELSE A3RenameAll(A3Rename(tree, paths[1]), Tail(paths))

\* find . -depth -exec rename ...: every path, the deepest first
RECURSIVE A3LowerDepth(_, _, _)
A3LowerDepth(tree, depth, order) ==
    IF depth = 0 THEN tree
    ELSE A3LowerDepth(
            A3RenameAll(tree, SortedBy({p \in DOMAIN tree : Len(p) = depth}, order)),
            depth - 1, order)

lowercase_workshop_dir(tree, order) ==
    [tree |-> A3LowerDepth(tree, TreeHeight(tree), order), raised |-> "no"]

\* The paths a tree is drawn from, and the tree of some of them: a path that
\* has another under it is a directory, the others are of the kind given.
TreePaths == SeqsUpTo(Range(TreeNames), 3) \ {<<>>}

Prefixes(path) == {SubSeq(path, 1, n) : n \in 1..Len(path)}

TreeOf(leaves, kinds) ==
    LET paths == UNION {Prefixes(leaves[i]) : i \in 1..Len(leaves)}
    IN  [p \in paths |->
            [kind |-> IF \E q \in paths : IsUnder(q, p) THEN "dir"
                      ELSE kinds[CHOOSE i \in 1..Len(leaves) : leaves[i] = p],
             entry |-> p]]

\* A number for each path, so that a set of leaves is drawn once.
RECURSIVE PathCode(_)
PathCode(path) ==
    IF path = <<>> THEN 0
    ELSE 4 * PathCode(Parent(path)) + NameRank(LastName(path))

EmptyTree == [p \in {} |-> [kind |-> "dir", entry |-> p]]

LowIdle ==
    /\ lowProgram = "idle" /\ lowOrder = "ascending"
    /\ lowTree = EmptyTree /\ lowFirst = EmptyTree /\ lowPrev = EmptyTree
    /\ lowCalls = 0 /\ lowResult = "none"

LowInit ==
    /\ lowProgram \in {"arma3modtools", "a3update"}
    /\ lowOrder \in {"ascending", "descending"}
    /\ \E n \in 1..MaxLeaves :
         \E leaves \in [1..n -> TreePaths], kinds \in [1..n -> {"dir", "file"}] :
            /\ \A i \in 1..(n - 1) : PathCode(leaves[i]) < PathCode(leaves[i + 1])
            /\ lowTree = TreeOf(leaves, kinds)
    /\ lowFirst = lowTree
    /\ lowPrev = lowTree
    /\ lowCalls = 0
    /\ lowResult = "none"

CallLowercaseMods ==
    /\ lowProgram = "arma3modtools"
    /\ lowCalls < MaxLowerCalls
    /\ lowResult \in {"none", "no"}
    /\ LET r == lowercase_mods(lowTree, lowOrder) IN
         /\ lowTree' = r.tree
         /\ lowResult' = r.raised
    /\ lowPrev' = lowTree
    /\ lowCalls' = lowCalls + 1
    /\ UNCHANGED <<lowProgram, lowOrder, lowFirst>>
    /\ LowFrame

CallLowercaseWorkshopDir ==
    /\ lowProgram = "a3update"
    /\ lowCalls < MaxLowerCalls
    /\ LET r == lowercase_workshop_dir(lowTree, lowOrder) IN
         /\ lowTree' = r.tree
         /\ lowResult' = r.raised
    /\ lowPrev' = lowTree
    /\ lowCalls' = lowCalls + 1
    /\ UNCHANGED <<lowProgram, lowOrder, lowFirst>>
    /\ LowFrame

LowNext == CallLowercaseMods \/ CallLowercaseWorkshopDir

(***************************************************************************)
(* The pipeline: run_html_mod_update (src/arma3modtools.py 430-462) with   *)
(* update_mods (260-303), run_update (237-257), check_installed_dirs       *)
(* (221-234) and key_symlinks (330-348).                                   *)
(*                                                                         *)
(* A mirror directory is absent, "old" (made before the mod's last         *)
(* announcement) or "new" (made after it).  The external tool and the      *)
(* credential prompt are the environment: a prompt succeeds or fails, and  *)
(* an invocation of the tool delivers any of the mods it was asked for.    *)
(* Mirror directories are named by numeric identifiers, which lowercasing  *)
(* leaves as they are.                                                     *)
(***************************************************************************)
MaxRuns == 2         \* runs of the pipeline in a row

\* The launcher lists of the model, as the registries built from them: no
\* mod, one mod, a mod that requires the other, two mods that require each
\* other, a mod that requires a mod of the same stable name, and a mod that
\* requires a mod that is not in the list.
PipeRegistries ==
    {Registry(<<>>, <<>>),
     Registry(<<<<"A">>>>, <<>>),
     Registry(<<<<"A">>, <<"B">>>>, <<[mod |-> 1, name |-> <<"B">>]>>),
     Registry(<<<<"A">>, <<"B">>>>,
              <<[mod |-> 1, name |-> <<"B">>], [mod |-> 2, name |-> <<"A">>]>>),
     Registry(<<<<"A">>>>, <<[mod |-> 1, name |-> <<"a", "!">>]>>),
     Registry(<<<<"A">>>>, <<[mod |-> 1, name |-> <<"C">>]>>)}

\* list(mod_dict.keys())
RegKeys(reg) == [i \in 1..Len(reg) |-> reg[i].key]

\* What fetching a mod's changelog page gives.
RemoteStates == {"announced", "unreachable", "unparseable"}

RemoteNet(remote) == IF remote = "unreachable" THEN "urlerror" ELSE "ok"

\* The page: its last announcement is of second 1.
RemotePage(remote) ==
    IF remote = "unparseable"
    THEN [div |-> FALSE, p |-> FALSE, hasId |-> FALSE, id |-> <<>>]
    ELSE [div |-> TRUE, p |-> TRUE, hasId |-> TRUE, id |-> <<"1">>]

DirStates == {"absent", "old", "new"}

\* st_ctime of a mirror directory, in ticks: second 0 or second 2
DirCtime(dir) == IF dir = "new" THEN 2 * TicksPerSec ELSE 0

\* needs_update(key) of line 273
PipeNeedsUpdate(key, dirs, remote) ==
    needs_update(dirs[key] # "absent", RemoteNet(remote[key]),
                 RemotePage(remote[key]), DirCtime(dirs[key]), "fixed")

\* Path(WORKSHOP_DIR).iterdir(), the names
Installed(dirs) == {k \in DOMAIN dirs : dirs[k] # "absent"}

\* check_installed_dirs(mod_list): the list with the installed mods popped
check_installed_dirs(mod_list, dirs) ==
    SelectSeq(mod_list, LAMBDA k : k \notin Installed(dirs))

\* Path.is_file(): links are followed; a mod's key file is there when its
\* mirror directory is
KeyIsFile(entry, workshop) ==
    \/ entry.kind = "file"
    \/ entry.kind = "link" /\ entry.target \in workshop

\* key_symlinks(): what is no file is unlinked, then a link is made for
\* each key file of the mirror that has none
key_symlinks(keys, workshop) ==
    LET pruned == [k \in DOMAIN keys |->
                      IF KeyIsFile(keys[k], workshop) THEN keys[k] ELSE Nothing]
    IN  [k \in DOMAIN keys |->
            IF k \in workshop /\ ~KeyIsFile(pruned[k], workshop)
            THEN LinkTo(k) ELSE pruned[k]]

NotSorted == [called |-> FALSE, raised |-> FALSE, value |-> <<>>]

\* Startup scripts found before the first run: none, one with a load-order
\* parameter, one without.
PipeScripts ==
    {NoFile,
     [exists |-> TRUE, mode |-> "0o744",
      text |-> JoinTokens(<<<<"s">>, ModPrefix \o <<"o">>, <<"p", "\n">>>>)],
     [exists |-> TRUE, mode |-> "0o744",
      text |-> JoinTokens(<<<<"s">>, <<"p", "\n">>>>)]}

Snapshot == [script |-> pipeScript, mods |-> pipeMods, keys |-> pipeKeys,
             dirs |-> pipeDirs]

PipeIdle ==
    /\ pipePc = "idle" /\ pipeRun = 0 /\ pipeReg = <<>>
    /\ pipeRemote = <<>> /\ pipeDirs = <<>> /\ pipeToUpdate = <<>>
    /\ pipeReturn = "none" /\ pipeMods = <<>> /\ pipeKeys = <<>>
    /\ pipeSort = NotSorted /\ pipeScript = NoFile /\ pipeScript0 = NoFile
    /\ pipeSnap = <<>> /\ pipeWrites = 0 /\ pipeError = "none"

PipeInit ==
    /\ pipePc = "start"
    /\ pipeRun = 1
    /\ pipeReg \in PipeRegistries
    /\ pipeRemote \in [Range(RegKeys(pipeReg)) -> RemoteStates]
    /\ pipeDirs \in [Range(RegKeys(pipeReg)) -> DirStates]
    /\ pipeToUpdate = <<>>
    /\ pipeReturn = "none"
    /\ \E entry \in {Nothing, LinkTo(ForeignId)} :
          pipeMods = [n \in {pipeReg[i].param_name : i \in 1..Len(pipeReg)} |-> entry]
    /\ pipeKeys = [k \in Range(RegKeys(pipeReg)) |-> Nothing]
    /\ pipeSort = NotSorted
    /\ pipeScript \in PipeScripts
    /\ pipeScript0 = pipeScript
    /\ pipeSnap = Snapshot
    /\ pipeWrites = 0
    /\ pipeError = "none"

\* lines 436-445: the launcher list is scanned and the registry assembled;
\* an empty list or registry ends the run with False
ScanAndBuild ==
    /\ pipePc = "start"
    /\ pipePc' = IF pipeReg = <<>> THEN "failed" ELSE "classify"
    /\ UNCHANGED <<pipeRun, pipeReg, pipeRemote, pipeDirs, pipeToUpdate,
                   pipeReturn, pipeMods, pipeKeys, pipeSort, pipeScript,
                   pipeScript0, pipeSnap, pipeWrites, pipeError>>
    /\ PipeFrame

\* update_mods, lines 269-288: every mod is classified; an exception of
\* needs_update ends the run; with every mod up to date update_mods returns
\* True; otherwise run_update(mods_to_update) is called
Classify ==
    /\ pipePc = "classify"
    /\ LET keys     == RegKeys(pipeReg)
           verdict  == [i \in 1..Len(keys) |->
                           PipeNeedsUpdate(keys[i], pipeDirs, pipeRemote)]
           raising  == {i \in 1..Len(keys) : verdict[i] \notin Verdicts}
           first    == CHOOSE i \in raising : \A j \in raising : i <= j
           mods_to_update ==
               SelectSeq(keys, LAMBDA k :
                   PipeNeedsUpdate(k, pipeDirs, pipeRemote) = "needs_update")
       IN  IF raising # {}
           THEN /\ pipePc' = "aborted"
                /\ pipeError' = verdict[first]
                /\ UNCHANGED <<pipeToUpdate, pipeReturn>>
           ELSE IF mods_to_update = <<>>
           THEN /\ pipePc' = "links"
                /\ pipeToUpdate' = mods_to_update
                /\ UNCHANGED <<pipeReturn, pipeError>>
           ELSE /\ pipePc' = "login"
                /\ pipeToUpdate' = mods_to_update
                /\ pipeReturn' = "check"
                /\ UNCHANGED pipeError
    /\ UNCHANGED <<pipeRun, pipeReg, pipeRemote, pipeDirs, pipeMods, pipeKeys,
                   pipeSort, pipeScript, pipeScript0, pipeSnap, pipeWrites>>
    /\ PipeFrame

\* run_update, lines 244-248: get_login() gives credentials, or False, and
\* run_update then returns False without calling the tool
GetLogin ==
    /\ pipePc = "login"
    /\ \E credentials \in BOOLEAN :
          pipePc' = IF credentials THEN "steamcmd" ELSE pipeReturn
    /\ UNCHANGED <<pipeRun, pipeReg, pipeRemote, pipeDirs, pipeToUpdate,
                   pipeReturn, pipeMods, pipeKeys, pipeSort, pipeScript,
                   pipeScript0, pipeSnap, pipeWrites, pipeError>>
    /\ PipeFrame

\* The mods of run_update's mod_list: mods_to_update from the calls of lines
\* 288 and 293, every mod from the validating call of line 297.
Batch ==
    IF pipeReturn = "check" THEN Range(pipeToUpdate) ELSE Range(RegKeys(pipeReg))

\* run_update, lines 249-257: the tool is called for the batch and makes
\* the mirror directories of some of its mods
CallSteamcmd ==
    /\ pipePc = "steamcmd"
    /\ \E delivered \in SUBSET Batch :
          pipeDirs' = [k \in DOMAIN pipeDirs |->
                          IF k \in delivered THEN "new" ELSE pipeDirs[k]]
    /\ pipePc' = pipeReturn
    /\ UNCHANGED <<pipeRun, pipeReg, pipeRemote, pipeToUpdate, pipeReturn,
                   pipeMods, pipeKeys, pipeSort, pipeScript, pipeScript0,
                   pipeSnap, pipeWrites, pipeError>>
    /\ PipeFrame

\* update_mods, lines 289-297: one round of the while loop;
\* check_installed_dirs pops the installed mods from mods_to_update itself;
\* with mods left run_update is called again, without the validating call
CheckInstalledDirs ==
    /\ pipePc = "check"
    /\ LET not_installed_mods == check_installed_dirs(pipeToUpdate, pipeDirs)
       IN  /\ pipeToUpdate' = not_installed_mods
           /\ pipeReturn' = IF not_installed_mods # <<>> THEN "check" ELSE "lowercase"
    /\ pipePc' = "login"
    /\ UNCHANGED <<pipeRun, pipeReg, pipeRemote, pipeDirs, pipeMods, pipeKeys,
                   pipeSort, pipeScript, pipeScript0, pipeSnap, pipeWrites,
                   pipeError>>
    /\ PipeFrame

\* update_mods, lines 298-303: lowercase_mods() on the mirror, then True
PipeLowercase ==
    /\ pipePc = "lowercase"
    /\ pipePc' = "links"
    /\ UNCHANGED <<pipeRun, pipeReg, pipeRemote, pipeDirs, pipeToUpdate,
                   pipeReturn, pipeMods, pipeKeys, pipeSort, pipeScript,
                   pipeScript0, pipeSnap, pipeWrites, pipeError>>
    /\ PipeFrame

\* line 449: create_mod_symlinks(mod_dictionary)
PipeModSymlinks ==
    /\ pipePc = "links"
    /\ pipeMods' = create_mod_symlinks(pipeReg, pipeMods, Installed(pipeDirs)).mods
    /\ pipePc' = "keys"
    /\ UNCHANGED <<pipeRun, pipeReg, pipeRemote, pipeDirs, pipeToUpdate,
                   pipeReturn, pipeKeys, pipeSort, pipeScript, pipeScript0,
                   pipeSnap, pipeWrites, pipeError>>
    /\ PipeFrame

\* line 452: key_symlinks()
PipeKeySymlinks ==
    /\ pipePc = "keys"
    /\ pipeKeys' = key_symlinks(pipeKeys, Installed(pipeDirs))
    /\ pipePc' = "sort"
    /\ UNCHANGED <<pipeRun, pipeReg, pipeRemote, pipeDirs, pipeToUpdate,
                   pipeReturn, pipeMods, pipeSort, pipeScript, pipeScript0,
                   pipeSnap, pipeWrites, pipeError>>
    /\ PipeFrame

\* lines 456-460: dependency_sort(mod_dictionary); its exception is not
\* caught and ends the run
PipeDependencySort ==
    /\ pipePc = "sort"
    /\ LET mod_param == dependency_sort(pipeReg)
       IN  /\ pipeSort' = [called |-> TRUE, raised |-> mod_param.raised,
                           value |-> mod_param.value]
           /\ pipePc' = IF mod_param.raised THEN "aborted" ELSE "write"
           /\ pipeError' = IF mod_param.raised THEN "NetworkXUnfeasible"
                           ELSE pipeError
    /\ UNCHANGED <<pipeRun, pipeReg, pipeRemote, pipeDirs, pipeToUpdate,
                   pipeReturn, pipeMods, pipeKeys, pipeScript, pipeScript0,
                   pipeSnap, pipeWrites>>
    /\ PipeFrame

\* lines 461-462: write_start_up_script(mod_param)
PipeWriteScript ==
    /\ pipePc = "write"
    /\ pipeScript' = write_start_up_script(pipeScript, pipeSort.value)
    /\ pipeWrites' = pipeWrites + 1
    /\ pipePc' = "done"
    /\ UNCHANGED <<pipeRun, pipeReg, pipeRemote, pipeDirs, pipeToUpdate,
                   pipeReturn, pipeMods, pipeKeys, pipeSort, pipeScript0,
                   pipeSnap, pipeError>>
    /\ PipeFrame

\* lines 479-481: the program is started again with the same launcher list
RunAgain ==
    /\ pipePc = "done"
    /\ pipeRun < MaxRuns
    /\ pipeRun' = pipeRun + 1
    /\ pipeSnap' = Snapshot
    /\ pipePc' = "start"
    /\ pipeToUpdate' = <<>>
    /\ pipeReturn' = "none"
    /\ pipeSort' = NotSorted
    /\ UNCHANGED <<pipeReg, pipeRemote, pipeDirs, pipeMods, pipeKeys,
                   pipeScript, pipeScript0, pipeWrites, pipeError>>
    /\ PipeFrame

(***************************************************************************)
(* Specifications.                                                         *)
(***************************************************************************)
InitStale ==
    StaleInit /\ A3Idle /\ SortIdle /\ ScriptIdle /\ LinkIdle /\ LowIdle /\ PipeIdle

SpecStale == InitStale /\ [][StaleNext]_vars

InitA3 ==
    A3Init /\ StaleIdle /\ SortIdle /\ ScriptIdle /\ LinkIdle /\ LowIdle /\ PipeIdle

SpecA3 == InitA3 /\ [][A3Next]_vars

InitSort ==
    SortInit /\ StaleIdle /\ A3Idle /\ ScriptIdle /\ LinkIdle /\ LowIdle /\ PipeIdle

SpecSort == InitSort /\ [][SortNext]_vars

InitScript ==
    ScriptInit /\ StaleIdle /\ A3Idle /\ SortIdle /\ LinkIdle /\ LowIdle /\ PipeIdle

SpecScript == InitScript /\ [][ScriptNext]_vars

InitLinks ==
    LinkInit /\ StaleIdle /\ A3Idle /\ SortIdle /\ ScriptIdle /\ LowIdle /\ PipeIdle

SpecLinks == InitLinks /\ [][LinkNext]_vars

InitLower ==
    LowInit /\ StaleIdle /\ A3Idle /\ SortIdle /\ ScriptIdle /\ LinkIdle /\ PipeIdle

SpecLower == InitLower /\ [][LowNext]_vars

Init ==
    PipeInit /\ StaleIdle /\ A3Idle /\ SortIdle /\ ScriptIdle /\ LinkIdle /\ LowIdle

Next ==
    \/ ScanAndBuild
    \/ Classify
    \/ GetLogin
    \/ CallSteamcmd
    \/ CheckInstalledDirs
    \/ PipeLowercase
    \/ PipeModSymlinks
    \/ PipeKeySymlinks
    \/ PipeDependencySort
    \/ PipeWriteScript
    \/ RunAgain

Spec == Init /\ [][Next]_vars

\* The program is one thread that takes its next step whenever it has one;
\* what the prompt and the tool give is up to them.
FairSpec == Spec /\ WF_vars(Next)

(***************************************************************************)
(* Claims.                                                                 *)
(***************************************************************************)
\* The mod is installed, the page was fetched and it carries a timestamp.
StaleParseable == stDir /\ stNet = "ok" /\ PatternMatches(stPage)

StaleRemoteSecs == DecimalValue(stPage.id)

\* The directory's time and the remote time fall under one UTC offset.
StaleSameOffset ==
    UtcOffset(stZone, RoundMicro(stCtime) \div MicroPerSec)
        = UtcOffset(stZone, StaleRemoteSecs)

StaleBothDone == stResA # "none" /\ stResB # "none"

\* C3 (as stated): a directory time strictly earlier than the remote time is
\* classified needs-update, an equal or later one up-to-date.  Stated for
\* directory times that are whole microseconds under one UTC offset.
C3_EqualIsUpToDate ==
    (StaleParseable /\ StaleSameOffset /\ StaleBothDone
        /\ stCtime % SubPerMicro = 0)
    => LET verdict == IF stCtime < StaleRemoteSecs * TicksPerSec
                      THEN "needs_update" ELSE "up_to_date"
       IN  stResA = verdict /\ stResB = verdict

\* C3 (amended): under one UTC offset, a directory time earlier than or equal
\* to the remote time is classified needs-update, and one later by a
\* microsecond or more is classified up-to-date, by both checks.
C3_StaleAtOrBefore ==
    (StaleParseable /\ StaleSameOffset)
    => /\ stCtime <= StaleRemoteSecs * TicksPerSec
            => /\ stResA \in {"none", "needs_update"}
               /\ stResB \in {"none", "needs_update"}
       /\ stCtime >= StaleRemoteSecs * TicksPerSec + SubPerMicro
            => /\ stResA \in {"none", "up_to_date"}
               /\ stResB \in {"none", "up_to_date"}

\* C3 witness: both checks have run on a directory whose time equals the
\* remote time, and both answered needs-update.
C3_Witness ==
    /\ StaleParseable /\ StaleSameOffset /\ StaleBothDone
    /\ stCtime = StaleRemoteSecs * TicksPerSec
    /\ stResA = "needs_update" /\ stResB = "needs_update"

\* C4: an installed mod whose changelog page has no parseable announcement
\* block is classified needs-update by both checks: never up-to-date, and no
\* exception leaves the check.
C4_FailOpen ==
    (stDir /\ stNet = "ok" /\ ~PatternMatches(stPage))
    => /\ stResA \in {"none", "needs_update"}
       /\ stResB \in {"none", "needs_update"}

\* C1: a mod that had to be downloaded and whose directory appears after the
\* N-th invocation of the tool: for N <= 10 the tool was invoked exactly N
\* times and no failure is reported; for N > 10 the tool was invoked exactly
\* 10 times and a failure naming the mod is reported.
C1_RetryReport ==
    a3pc = "done" =>
        \A i \in 1..Len(MODS) :
            LET id == MODS[i].value IN
            id \in a3loop =>
                IF a3N[id] <= A3_RETRIES
                THEN a3calls[id] = a3N[id] /\ MODS[i].key \notin a3failed
                ELSE a3calls[id] = A3_RETRIES /\ MODS[i].key \in a3failed

\* The stable short names of a registry's entries, those of the declared
\* dependencies, and the dependency edges (dependency, dependent).
EntryNames(reg) == {reg[i].param_name : i \in 1..Len(reg)}

DeclaredNames(reg) ==
    UNION {{reg[i].dependencies[j].param_name : j \in 1..Len(reg[i].dependencies)} :
           i \in 1..Len(reg)}

DeclaredEdges(reg) ==
    UNION {{<<reg[i].dependencies[j].param_name, reg[i].param_name>> :
                j \in 1..Len(reg[i].dependencies)} : i \in 1..Len(reg)}

\* The names reachable from the set S along one or more edges of E.
RECURSIVE ReachableFrom(_, _, _)
ReachableFrom(S, E, n) ==
    LET step == {e[2] : e \in {d \in E : d[1] \in S}}
    IN  IF n = 0 THEN step ELSE step \cup ReachableFrom(step, E, n - 1)

Acyclic(reg) ==
    LET E == DeclaredEdges(reg)
        N == EntryNames(reg) \cup DeclaredNames(reg)
    IN  \A v \in N : v \notin ReachableFrom({v}, E, Cardinality(N))

\* The paths of a rendered load order, in order.
LoadOrderPaths(text) == IF text = <<>> THEN <<>> ELSE Split(text, <<";">>[1])

\* The paths are those of the names in names, each once, and every declared
\* dependency's path comes before its dependent's.
IsLoadOrderOf(text, names, edges) ==
    LET paths == LoadOrderPaths(text)
        At(n) == CHOOSE i \in 1..Len(paths) : paths[i] = ModPath(n)
    IN  /\ \A i, j \in 1..Len(paths) : i # j => paths[i] # paths[j]
        /\ Range(paths) = {ModPath(n) : n \in names}
        /\ \A e \in edges : At(e[1]) < At(e[2])

\* C5 (as stated): for a registry with an acyclic dependency relation,
\* dependency_sort renders a permutation of the short names of the registry's
\* entries, no other names, every dependency before its dependent.
C5_PermutationOfEntries ==
    (sortPc = "returned" /\ Acyclic(sortReg))
    => /\ ~sortOut.raised
       /\ IsLoadOrderOf(sortOut.value, EntryNames(sortReg), DeclaredEdges(sortReg))

\* C5 (amended): for a registry with an acyclic dependency relation,
\* dependency_sort renders a permutation of the short names of the registry's
\* entries and of their declared dependencies, each once and no other names,
\* every dependency before its dependent.
C5_PermutationOfNodes ==
    (sortPc = "returned" /\ Acyclic(sortReg))
    => /\ ~sortOut.raised
       /\ IsLoadOrderOf(sortOut.value,
                        EntryNames(sortReg) \cup DeclaredNames(sortReg),
                        DeclaredEdges(sortReg))

\* C5 witness: a load order was rendered for an acyclic registry of two mods
\* with a dependency between them and a dependency that is no entry.
C5_Witness ==
    /\ sortPc = "returned" /\ Acyclic(sortReg) /\ ~sortOut.raised
    /\ Len(sortReg) = 2
    /\ <<sortReg[1].param_name, sortReg[2].param_name>> \in DeclaredEdges(sortReg)
    /\ DeclaredNames(sortReg) \ EntryNames(sortReg) # {}
    /\ Len(LoadOrderPaths(sortOut.value)) = 3

\* The tokens of the script before the last call, and the first of them that
\* begins with -mod=.
PrevTokens == Split(scriptPrev.text, " ")

HadModToken ==
    scriptPrev.exists /\ \E i \in 1..Len(PrevTokens) : StartsWith(PrevTokens[i], ModPrefix)

FirstModToken ==
    CHOOSE i \in 1..Len(PrevTokens) :
        /\ StartsWith(PrevTokens[i], ModPrefix)
        /\ \A j \in 1..(i - 1) : ~StartsWith(PrevTokens[j], ModPrefix)

\* C6: when the script had a token beginning with -mod=, the rewritten file's
\* tokens are the original tokens with only the first such token replaced by
\* -mod="<new order>": no other token changed, merged, dropped, duplicated or
\* moved.
C6_OnlyFirstModTokenReplaced ==
    (scriptCalls > 0 /\ HadModToken)
    => Split(scriptFile.text, " ")
         = [PrevTokens EXCEPT ![FirstModToken] = ModParameter(scriptArg)]

\* C8: after create_mod_symlinks returns, whatever the mods directory held
\* before, every registry entry whose mirror directory exists has at its
\* stable name a link to the mirror directory of its identifier; no path has
\* a link made twice, and no call raises.
C8_LinksToOwnMirror ==
    linkCalls > 0 =>
        /\ ~linkRaised
        /\ \A i \in 1..Len(linkReg) :
              linkReg[i].key \in linkWorkshop
                  => linkMods[linkReg[i].param_name] = LinkTo(linkReg[i].key)
        /\ \A n \in DOMAIN linkMade : linkMade[n] <= 1

\* No two entries of one directory have names that coincide once lowered.
CollisionFree(tree) ==
    \A p, q \in DOMAIN tree :
        (p # q /\ Parent(p) = Parent(q)) => Lower(LastName(p)) # Lower(LastName(q))

AllLowercase(tree) ==
    \A p \in DOMAIN tree : \A i \in 1..Len(p) : p[i] = Lower(p[i])

EntriesOf(tree) == {tree[p].entry : p \in DOMAIN tree}

\* C9: after lowercasing a collision-free mirror tree, every file and
\* directory at every depth under the mirror root, the root's own entries
\* included, has an all-lowercase name, no entry is lost, and a second pass
\* changes nothing.
C9_EverythingLowercase ==
    (lowCalls > 0 /\ CollisionFree(lowFirst))
    => /\ lowResult = "no"
       /\ AllLowercase(lowTree)
       /\ EntriesOf(lowTree) = EntriesOf(lowFirst)
       /\ lowCalls > 1 => lowTree = lowPrev

\* C2: update_mods always terminates, whatever the tool and the credential
\* prompt do: once entered it returns (or is left by an exception).
C2_UpdateModsReturns ==
    (pipePc = "classify") ~> (pipePc \in {"links", "aborted"})

\* C7: a second run of the pipeline with the same registry and no remote or
\* mirror change leaves the startup script with the content it had after the
\* first run, and the same links in the mods and keys directories.
C7_SecondRunChangesNothing ==
    (pipeRun > 1 /\ pipePc = "done" /\ pipeDirs = pipeSnap.dirs)
    => /\ pipeScript = pipeSnap.script
       /\ pipeMods = pipeSnap.mods
       /\ pipeKeys = pipeSnap.keys

\* C10: with a cycle in the dependency graph built from the registry,
\* dependency_sort raises the cycle error; the run ends there, and
\* write_start_up_script is not called: the startup script is as it was.
C10_CycleAborts ==
    ~Acyclic(pipeReg)
    => /\ pipeWrites = 0
       /\ pipeScript = pipeScript0
       /\ pipePc \notin {"write", "done"}
       /\ pipeSort.called => /\ pipeSort.raised
                             /\ pipePc = "aborted"
                             /\ pipeError = "NetworkXUnfeasible"

\* C10 witness: dependency_sort raised on a registry of two mods that
\* require each other, with a startup script there.
C10_Witness ==
    /\ ~Acyclic(pipeReg)
    /\ Len(pipeReg) = 2
    /\ pipeSort.called
    /\ pipePc = "aborted"
    /\ pipeScript0.exists
    /\ pipeScript = pipeScript0

\* The characters of a token that are no white space.
NonWhitespace(token) == SelectSeq(token, LAMBDA c : c \notin {" ", "\n"})

\* C11: when the script had no token beginning with -mod=, the rewritten
\* file's tokens are the original tokens, in their order and each with its
\* non-whitespace characters unchanged (the last one included), followed by
\* -mod="<new order>" as a new final token.
C11_AppendKeepsTokens ==
    (scriptCalls > 0 /\ scriptPrev.exists /\ ~HadModToken)
    => LET tokens == Split(scriptFile.text, " ")
       IN  /\ Len(tokens) = Len(PrevTokens) + 1
           /\ tokens[Len(tokens)] = ModParameter(scriptArg)
           /\ \A i \in 1..Len(PrevTokens) :
                 NonWhitespace(tokens[i]) = NonWhitespace(PrevTokens[i])

\* A mod that the staleness check of this run classified needs-update while
\* its mirror directory existed, and whose directory the tool has not made
\* since: the directory is still the one from before the last announcement.
StaleAndNotDownloaded(k) ==
    /\ pipeDirs[k] = "old"
    /\ PipeNeedsUpdate(k, pipeDirs, pipeRemote) = "needs_update"

\* C12: in update_mods a mod classified needs-update has its existing mirror
\* directory removed before the tool is invoked, and as long as the tool has
\* not made the directory anew the presence check does not count the mod as
\* installed: it stays in mods_to_update.
C12_StaleDirRemovedFirst ==
    \A k \in DOMAIN pipeDirs :
        /\ (pipePc = "steamcmd" /\ pipeReturn = "check" /\ k \in Range(pipeToUpdate))
           => pipeDirs[k] # "old"
        /\ (pipePc \in {"login", "steamcmd", "check", "lowercase"}
            /\ StaleAndNotDownloaded(k))
           => k \in Range(pipeToUpdate)

\* The path has a sibling in tree whose name is the same once lowered.
Collides(tree, p) ==
    \E q \in DOMAIN tree :
        q # p /\ Parent(q) = Parent(p) /\ Lower(LastName(q)) = Lower(LastName(p))

\* C13: when siblings of the mirror tree have names that coincide once
\* lowered, lowercase_mods does not abort the pass, neither sibling is
\* overwritten or deleted (every entry is still there), and every item
\* that lowercase_mods goes through and that collides with none has its
\* name lowered.
C13_CollisionTolerated ==
    (lowProgram = "arma3modtools" /\ lowCalls > 0 /\ ~CollisionFree(lowFirst))
    => /\ lowResult = "no"
       /\ EntriesOf(lowTree) = EntriesOf(lowFirst)
       /\ \A p \in DOMAIN lowTree :
             (Len(p) > 1 /\ LastName(p) # Lower(LastName(p))) => Collides(lowTree, p)

=============================================================================
